---- MODULE Spec2Model ----
(***************************************************************************)
(* A model of samitorch: the Dice and GeneralizedDice metrics built on a   *)
(* confusion-matrix accumulator and the MetricsFactory registry            *)
(* (metrics/metric.py), to_onehot (utils/utils.py), and the construction   *)
(* and the forward pass of UNet3D (models/unet3d.py).                      *)
(*                                                                         *)
(* Conventions.                                                            *)
(*  - A Python Optional is a sequence of length at most one: None is <<>>  *)
(*    and a present value x is <<x>>.                                      *)
(*  - A one-dimensional tensor is a sequence; class k (0-based, as in the  *)
(*    code) sits at position k + 1.                                        *)
(*  - The confusion matrix is a function m[i][j] over classes 0..C-1.      *)
(*  - A floating-point quotient is kept exact and unevaluated: the record  *)
(*    [num, den, eps] denotes num / (den + eps), where num and den are     *)
(*    integers and eps is EPSILON (0 < EPSILON < 1).  Comparisons are made *)
(*    on these exact values; float64 rounding is monotone, so the order    *)
(*    relations used below carry over to the rounded values.               *)
(*  - The expressions the code builds with ignite's lazy MetricsLambda     *)
(*    (cm.type(...), cm.diag(), arithmetic, .mean()) are records that      *)
(*    Evaluate turns into a value against the matrix current at that time. *)
(*  - A call's outcome is [ok, err, val]: ok is FALSE when it raised, err  *)
(*    names the exception, val is the returned value.                      *)
(*  - ignite's ConfusionMatrix is used through what this code touches of   *)
(*    it: num_classes, the matrix (which update adds a batch's counts to   *)
(*    and reset overwrites), and the lazy expressions over it.  average    *)
(*    and output_transform keep their defaults.                            *)
(*  - to_onehot works on whole tensors, [dtype, shape, data].  The network *)
(*    is followed through the shapes (N, C, D, H, W) of its feature maps:  *)
(*    a torch layer is the record of its constructor's arguments, and its  *)
(*    forward gives the shape torch documents for it, or raises.           *)
(*  - ModelConfiguration is a record of the fields unet3d.py reads.        *)
(***************************************************************************)
EXTENDS Integers, Sequences, FiniteSets, Bags, TLC

\* ---------------------------------------------------------------- bounds
MaxClasses == 3
MaxSamples == 2
MaxWeight == 2
MaxRegister == 2
MaxLabel == 3
MaxLevels == 3
MaxSide == 8

\* -------------------------------------------------------------- constants
EPSILON == [mant |-> 1, exp |-> -15]

None == <<>>
Some(x) == <<x>>

\* The exceptions of this module.
IgnoreIndexNegative == "AssertionError: ignore_index must be non-negative"
IgnoreIndexTooLarge == "AssertionError: ignore index must be lower than the number of classes in confusion matrix"
WeightsSizeMismatch == "AssertionError: Weights vector must be the same length than the number of classes"
RemoveIndexAssertion == "AssertionError: ignore_index is larger than the length of dice vector"
NoneHasNoSize == "AttributeError: 'NoneType' object has no attribute 'size'"
NoneHasNoCompute == "AttributeError: 'NoneType' object has no attribute 'compute'"
TensorTimesNone == "TypeError: unsupported operand type(s) for *: 'Tensor' and 'NoneType'"
ShapeMismatch == "RuntimeError: The size of tensor a must match the size of tensor b"
KeyError == "KeyError"

NoValue == [reduced |-> FALSE, items |-> <<>>]
Return(v) == [ok |-> TRUE, err |-> "", val |-> v]
Raise(e) == [ok |-> FALSE, err |-> e, val |-> NoValue]
ReturnNone == Return(NoValue)
\* A returned tensor, and the scalar tensor.mean() of a tensor (the arithmetic
\* mean of items, kept unevaluated).
Vector(items) == [reduced |-> FALSE, items |-> items]
tensor_mean(items) == [reduced |-> TRUE, items |-> items]

\* ------------------------------------------------------ confusion matrix
Classes(C) == 0..(C - 1)

ZeroMatrix(C) == [i \in Classes(C) |-> [j \in Classes(C) |-> 0]]

\* An output is the pair (y_pred, y) of equally long label tensors.
cm_update(m, C, output) ==
    [i \in Classes(C) |-> [j \in Classes(C) |->
        m[i][j] + Cardinality({n \in 1..Len(output[2]) :
                                  output[2][n] = i /\ output[1][n] = j})]]

RECURSIVE SumSeq(_)
SumSeq(s) == IF s = <<>> THEN 0 ELSE Head(s) + SumSeq(Tail(s))

diag(m, C) == [k \in 1..C |-> m[k - 1][k - 1]]
sum_dim1(m, C) == [k \in 1..C |-> SumSeq([j \in 1..C |-> m[k - 1][j - 1]])]
sum_dim0(m, C) == [k \in 1..C |-> SumSeq([i \in 1..C |-> m[i - 1][k - 1]])]

Total(m, C) == SumSeq(sum_dim1(m, C))

\* ------------------------------------------------------------ validation
validate_ignore_index(ignore_index) ==
    IF ignore_index >= 0 THEN ReturnNone ELSE Raise(IgnoreIndexNegative)

\* Mutant: the bound compared with <= instead of <.
validate_num_classes_inclusive(ignore_index, num_classes) ==
    IF ignore_index <= num_classes THEN ReturnNone ELSE Raise(IgnoreIndexTooLarge)

validate_num_classes(ignore_index, num_classes) ==
    IF ignore_index < num_classes THEN ReturnNone ELSE Raise(IgnoreIndexTooLarge)

validate_weights_size(weights_size, num_classes) ==
    IF weights_size = num_classes THEN ReturnNone ELSE Raise(WeightsSizeMismatch)

\* --------------------------------------------- building the lazy metric
\* compute_dice_coefficient up to the point where it returns: the checks run
\* eagerly, the arithmetic is recorded in the expression.
compute_dice_coefficient(num_classes, ignore_index) ==
    IF ignore_index # None /\ ~validate_ignore_index(ignore_index[1]).ok
    THEN validate_ignore_index(ignore_index[1])
    ELSE IF ignore_index # None /\ ~validate_num_classes(ignore_index[1], num_classes).ok
    THEN validate_num_classes(ignore_index[1], num_classes)
    ELSE [ok |-> TRUE, err |-> "",
          val |-> [fn |-> "dice", weights |-> None,
                   ignore_index |-> ignore_index, mean |-> FALSE]]

weights_size(weights) ==
    IF weights = None THEN Raise(NoneHasNoSize) ELSE Return(Len(weights[1]))

compute_generalized_dice_coefficient(num_classes, weights, ignore_index) ==
    IF ignore_index # None /\ ~validate_ignore_index(ignore_index[1]).ok
    THEN validate_ignore_index(ignore_index[1])
    ELSE IF ignore_index # None /\ ~validate_num_classes(ignore_index[1], num_classes).ok
    THEN validate_num_classes(ignore_index[1], num_classes)
    ELSE IF ignore_index # None /\ ~weights_size(weights).ok
    THEN weights_size(weights)
    ELSE IF ignore_index # None /\ ~validate_weights_size(weights_size(weights).val, num_classes).ok
    THEN validate_weights_size(weights_size(weights).val, num_classes)
    ELSE [ok |-> TRUE, err |-> "",
          val |-> [fn |-> "generalized_dice", weights |-> weights,
                   ignore_index |-> ignore_index, mean |-> FALSE]]

\* Mutant: the reduction is not applied.
mean_not_applied(expr) == expr

\* self._metric = self._metric.mean()
mean(expr) == [expr EXCEPT !.mean = TRUE]

\* ------------------------------------------------- evaluating the metric
Quotient(n, d) == [num |-> n, den |-> d, eps |-> EPSILON]

\* Mutant: the denominator misses the column sums.
dice_row_sums_only(m, C) ==
    [k \in 1..C |-> Quotient(2 * diag(m, C)[k], sum_dim1(m, C)[k])]

\* Mutant: the numerator misses the factor 2.
dice_without_factor_two(m, C) ==
    [k \in 1..C |->
        Quotient(diag(m, C)[k], sum_dim1(m, C)[k] + sum_dim0(m, C)[k])]

\* dice = 2 * cm.diag() / (cm.sum(dim=1) + cm.sum(dim=0) + EPSILON)
dice(m, C) ==
    [k \in 1..C |->
        Quotient(2 * diag(m, C)[k], sum_dim1(m, C)[k] + sum_dim0(m, C)[k] )]

\* torch's broadcasting of two one-dimensional tensors of sizes a and b.
Broadcastable(a, b) == a = b \/ a = 1 \/ b = 1
BroadcastLen(a, b) == IF a = 1 THEN b ELSE a
At(t, k) == IF Len(t) = 1 THEN t[1] ELSE t[k]

\* Mutant: the numerator misses the factor 2.
generalized_dice_without_factor_two(m, C, weights) ==
    IF weights = None THEN Raise(TensorTimesNone)
    ELSE IF ~Broadcastable(C, Len(weights[1])) THEN Raise(ShapeMismatch)
    ELSE LET w == weights[1]
             s == [k \in 1..C |-> sum_dim1(m, C)[k] + sum_dim0(m, C)[k]]
         IN  Return(Vector(
               [k \in 1..BroadcastLen(C, Len(w)) |->
                   Quotient(At(diag(m, C), k) * At(w, k), At(s, k) * At(w, k))]))

\* dice = 2 * (cm.diag() * weights) / (((cm.sum(dim=1) + cm.sum(dim=0)) * weights) + EPSILON)
generalized_dice(m, C, weights) ==
    IF weights = None THEN Raise(TensorTimesNone)
    ELSE IF ~Broadcastable(C, Len(weights[1])) THEN Raise(ShapeMismatch)
    ELSE LET w == weights[1]
             s == [k \in 1..C |-> sum_dim1(m, C)[k] + sum_dim0(m, C)[k]]
         IN  Return(Vector(
               [k \in 1..BroadcastLen(C, Len(w)) |->
                   Quotient(2 * (At(diag(m, C), k) * At(w, k)),
                            At(s, k) * At(w, k))]))

\* [x for x in range(lo, n) if x != skip]
RECURSIVE range_except(_, _, _)
range_except(lo, n, skip) ==
    IF lo >= n THEN <<>>
    ELSE (IF lo # skip THEN <<lo>> ELSE <<>>) \o range_except(lo + 1, n, skip)

\* Mutant: the position after ignore_index is the one left out.
remove_index_off_by_one(dice_vector, ignore_index) ==
    IF ~(ignore_index <= Len(dice_vector)) THEN Raise(RemoveIndexAssertion)
    ELSE LET indices == range_except(0, Len(dice_vector), ignore_index + 1)
         IN  Return(Vector([i \in 1..Len(indices) |-> dice_vector[indices[i] + 1]]))

remove_index(dice_vector, ignore_index) ==
    IF ~(ignore_index <= Len(dice_vector)) THEN Raise(RemoveIndexAssertion)
    ELSE LET indices == range_except(0, Len(dice_vector), ignore_index)
         IN  Return(Vector([i \in 1..Len(indices) |-> dice_vector[indices[i] + 1]]))

generalized_remove_index(dice_vector, ignore_index) ==
    IF ~(ignore_index <= Len(dice_vector)) THEN Raise(RemoveIndexAssertion)
    ELSE LET indices == range_except(0, Len(dice_vector), ignore_index)
         IN  Return(Vector([i \in 1..Len(indices) |-> dice_vector[indices[i] + 1]]))

\* self._metric.compute(): the recorded expression against the matrix m.
Evaluate(expr, m, C) ==
    LET raw  == IF expr.fn = "dice" THEN Return(Vector(dice(m, C)))
                ELSE generalized_dice(m, C, expr.weights)
        kept == IF ~raw.ok \/ expr.ignore_index = None THEN raw
                ELSE IF expr.fn = "dice"
                     THEN remove_index(raw.val.items, expr.ignore_index[1])
                     ELSE generalized_remove_index(raw.val.items, expr.ignore_index[1])
    IN  IF ~kept.ok THEN kept
        ELSE IF expr.mean THEN Return(tensor_mean(kept.val.items))
        ELSE kept

\* ------------------------------------------------------------- tensors
\* A tensor is [dtype, shape, data]: shape is the sequence of its sizes and
\* data maps every index (a sequence of 0-based positions, one per axis) to the
\* element there.  Axes are numbered from 0, as in torch.
RECURSIVE IndicesOf(_)
IndicesOf(shape) ==
    IF shape = <<>> THEN {<<>>}
    ELSE {<<i>> \o rest : i \in 0..(shape[1] - 1), rest \in IndicesOf(Tail(shape))}

Tensor(dtype, shape, data) == [dtype |-> dtype, shape |-> shape, data |-> data]
NoTensor == Tensor("", <<>>, [ix \in {} |-> 0])

ScatterIndexOutOfBounds == "RuntimeError: index out of bounds for dimension 1"

\* A sequence with x put in before position dim + 1, with position dim + 1
\* taken out, and with position dim + 1 set to x.
InsertAt(s, dim, x) == SubSeq(s, 1, dim) \o <<x>> \o SubSeq(s, dim + 1, Len(s))
DropAt(s, dim) == SubSeq(s, 1, dim) \o SubSeq(s, dim + 2, Len(s))
SetAt(s, dim, x) == [s EXCEPT ![dim + 1] = x]

\* Mutant: the tensor starts filled with ones.
zeros_filled_with_ones(size) == Tensor("float32", size, [ix \in IndicesOf(size) |-> 1])

\* torch.zeros(*size): a float32 tensor of zeros.
zeros(size) == Tensor("float32", size, [ix \in IndicesOf(size) |-> 0])

\* tensor.unsqueeze(dim): the same elements under a new axis of size 1.
unsqueeze(t, dim) ==
    Tensor(t.dtype, InsertAt(t.shape, dim, 1),
           [ix \in IndicesOf(InsertAt(t.shape, dim, 1)) |-> t.data[DropAt(ix, dim)]])

\* self.scatter_(dim, index, value): self[..., index[ix], ...] = value for
\* every position ix of index, the looked-up number replacing the coordinate on
\* axis dim.  An index element outside [0, self.size(dim)) is an error.
scatter_(self, dim, index, value) ==
    IF \E ix \in IndicesOf(index.shape) :
          index.data[ix] < 0 \/ index.data[ix] >= self.shape[dim + 1]
    THEN [ok |-> FALSE, err |-> ScatterIndexOutOfBounds, val |-> NoTensor]
    ELSE [ok |-> TRUE, err |-> "",
          val |-> Tensor(self.dtype, self.shape,
                    [jx \in IndicesOf(self.shape) |->
                        IF \E ix \in IndicesOf(index.shape) :
                              SetAt(ix, dim, index.data[ix]) = jx
                        THEN value ELSE self.data[jx]])]

\* Mutant: the class axis is put first.
to_onehot_class_axis_first(indices, num_classes) ==
    scatter_(zeros(<<num_classes>> \o indices.shape), 0, unsqueeze(indices, 0), 1)

\* onehot = torch.zeros(indices.shape[0], num_classes, *indices.shape[1:])
\* return onehot.scatter_(1, indices.unsqueeze(1), 1)
to_onehot(indices, num_classes) ==
    scatter_(zeros(<<indices.shape[1], num_classes>> \o Tail(indices.shape)),
             1, unsqueeze(indices, 1), 1)

\* torch.argmax(t, dim): along axis dim, the position of the largest element
\* (the first one, should several be equal), as an int64 tensor without that axis.
argmax(t, dim) ==
    Tensor("int64", DropAt(t.shape, dim),
           [ix \in IndicesOf(DropAt(t.shape, dim)) |->
               CHOOSE k \in 0..(t.shape[dim + 1] - 1) :
                  /\ \A l \in 0..(t.shape[dim + 1] - 1) :
                        t.data[InsertAt(ix, dim, l)] <= t.data[InsertAt(ix, dim, k)]
                  /\ \A l \in 0..(k - 1) :
                        t.data[InsertAt(ix, dim, l)] < t.data[InsertAt(ix, dim, k)]])

\* torch.eye(n)
eye(n) == Tensor("float32", <<n, n>>,
                 [ix \in IndicesOf(<<n, n>>) |-> IF ix[1] = ix[2] THEN 1 ELSE 0])

\* ------------------------------------------------------- network layers
\* A feature map is known by its shape (N, C, D, H, W) and by the stage that
\* produced it: [shape, origin].  A layer is the record of its constructor's
\* arguments; its forward maps a feature map to an outcome whose val is a
\* feature map.  Normalization and activation layers keep the shape and are
\* left out of the records.
FeatureMap(shape, origin) == [shape |-> shape, origin |-> origin]
NoFeatureMap == FeatureMap(<<>>, <<>>)
Fail(e) == [ok |-> FALSE, err |-> e, val |-> NoFeatureMap]
Pass(t) == [ok |-> TRUE, err |-> "", val |-> t]

ChannelMismatch == "RuntimeError: expected input to have a different number of channels"
OutputTooSmall == "RuntimeError: output size is too small"
SizeMismatch == "RuntimeError: sizes of tensors must match"
PaddingNotInts == "TypeError: argument 'padding' must be tuple of ints"

Channels(t) == t.shape[2]
Spatial(t) == SubSeq(t.shape, 3, 5)
WithShape(t, C, spatial) == FeatureMap(<<t.shape[1], C>> \o spatial, t.origin)

\* torch.nn.Conv3d(in_channels, out_channels, kernel_size, padding=padding)
Conv3d(in_channels, out_channels, kernel_size, padding) ==
    [in_channels |-> in_channels, out_channels |-> out_channels,
     kernel_size |-> kernel_size, padding |-> padding]

Conv3d_forward(conv, x) ==
    LET out == [d \in 1..3 |-> Spatial(x)[d] + 2 * conv.padding - conv.kernel_size + 1]
    IN  IF Channels(x) # conv.in_channels THEN Fail(ChannelMismatch)
        ELSE IF \E d \in 1..3 : out[d] < 1 THEN Fail(OutputTooSmall)
        ELSE Pass(WithShape(x, conv.out_channels, out))

\* ReplicationPad3d(padding): padding is (left, right, top, bottom, front,
\* back), the first pair for W, the second for H, the third for D.
ReplicationPad3d_forward(padding, x) ==
    WithShape(x, Channels(x),
              <<Spatial(x)[1] + padding[5] + padding[6],
                Spatial(x)[2] + padding[3] + padding[4],
                Spatial(x)[3] + padding[1] + padding[2]>>)

SingleConv(in_channels, out_channels, kernel_size, padding) ==
    IF padding # None
    THEN [padding |-> padding,
          conv |-> Conv3d(in_channels, out_channels, kernel_size, 0)]
    ELSE [padding |-> None,
          conv |-> Conv3d(in_channels, out_channels, kernel_size, 1)]

SingleConv_forward(self, x) ==
    Conv3d_forward(self.conv,
                   IF self.padding # None
                   THEN ReplicationPad3d_forward(self.padding[1], x) ELSE x)

\* Mutant: the encoder's first sublayer is always half the target width.
DoubleConv_half_width(in_channels, out_channels, is_in_encoder, kernel_size, padding) ==
    IF is_in_encoder
    THEN [conv1 |-> SingleConv(in_channels, out_channels \div 2, kernel_size, padding),
          conv2 |-> SingleConv(out_channels \div 2, out_channels, kernel_size, padding)]
    ELSE [conv1 |-> SingleConv(in_channels, out_channels, kernel_size, padding),
          conv2 |-> SingleConv(out_channels, out_channels, kernel_size, padding)]

DoubleConv(in_channels, out_channels, is_in_encoder, kernel_size, padding) ==
    LET conv1_out_channels ==
            IF is_in_encoder
            THEN (IF out_channels \div 2 < in_channels THEN in_channels
                  ELSE out_channels \div 2)
            ELSE out_channels
        conv2_in_channels == IF is_in_encoder THEN conv1_out_channels ELSE out_channels
    IN  [conv1 |-> SingleConv(in_channels, conv1_out_channels, kernel_size, padding),
         conv2 |-> SingleConv(conv2_in_channels, out_channels, kernel_size, padding)]

DoubleConv_forward(self, x) ==
    LET x1 == SingleConv_forward(self.conv1, x)
    IN  IF ~x1.ok THEN x1 ELSE SingleConv_forward(self.conv2, x1.val)

\* The pooling layer of the configuration: kernel_size, the stride being the
\* kernel size.
MaxPool3d_forward(kernel_size, x) ==
    LET out == [d \in 1..3 |-> (Spatial(x)[d] - kernel_size) \div kernel_size + 1]
    IN  IF \E d \in 1..3 : Spatial(x)[d] < kernel_size THEN Fail(OutputTooSmall)
        ELSE Pass(WithShape(x, Channels(x), out))

\* Mutant: every encoder pools.
Encoder_always_pooling(in_channels, out_channels, config, apply_pooling) ==
    [pooling |-> Some(config.pool_kernel_size),
     basic_module |-> DoubleConv(in_channels, out_channels, TRUE,
                                 config.conv_kernel_size, config.padding)]

Encoder(in_channels, out_channels, config, apply_pooling) ==
    [pooling |-> IF apply_pooling THEN Some(config.pool_kernel_size) ELSE None,
     basic_module |-> DoubleConv(in_channels, out_channels, TRUE,
                                 config.conv_kernel_size, config.padding)]

\* apply_pooling: bool = True
apply_pooling_default == TRUE

\* Encoder.forward up to the pooling, and whole.
Encoder_pooled(self, x) ==
    IF self.pooling # None THEN MaxPool3d_forward(self.pooling[1], x) ELSE Pass(x)

Encoder_forward(self, x) ==
    IF ~Encoder_pooled(self, x).ok THEN Encoder_pooled(self, x)
    ELSE DoubleConv_forward(self.basic_module, Encoder_pooled(self, x).val)

\* An int or a module handed to a layer as its padding argument.
IntArgument(n) == [type |-> "int", int |-> n, module |-> ""]
ModuleArgument(name) == [type |-> "Module", int |-> 0, module |-> name]

\* torch.nn.ConvTranspose3d(in_channels, out_channels, kernel_size=..., stride=...,
\*                          padding=..., output_padding=...)
ConvTranspose3d(in_channels, out_channels, kernel_size, stride, padding, output_padding) ==
    [in_channels |-> in_channels, out_channels |-> out_channels,
     kernel_size |-> kernel_size, stride |-> stride, padding |-> padding,
     output_padding |-> output_padding]

\* The padding must be ints; then the channels must be the declared ones; then
\* D_out = (D_in - 1) * stride - 2 * padding + kernel_size + output_padding.
ConvTranspose3d_forward(up, x) ==
    LET out == [d \in 1..3 |-> (Spatial(x)[d] - 1) * up.stride - 2 * up.padding.int
                                  + up.kernel_size + up.output_padding]
    IN  IF up.padding.type # "int" THEN Fail(PaddingNotInts)
        ELSE IF Channels(x) # up.in_channels THEN Fail(ChannelMismatch)
        ELSE IF \E d \in 1..3 : out[d] < 1 THEN Fail(OutputTooSmall)
        ELSE Pass(WithShape(x, up.out_channels, out))

Decoder(in_channels, out_channels, config) ==
    IF config.interpolation
    THEN [upsample |-> None,
          basic_module |-> DoubleConv(in_channels, out_channels, FALSE,
                                      config.conv_kernel_size, config.padding)]
    ELSE [upsample |-> Some(ConvTranspose3d(in_channels, out_channels,
                                            config.conv_kernel_size, config.scale_factor,
                                            ModuleArgument("ReplicationPad3d"), 1)),
          basic_module |-> DoubleConv(out_channels, out_channels, FALSE,
                                      config.conv_kernel_size, config.padding)]

\* torch.nn.functional.interpolate(x, size=size, mode='nearest')
interpolate(x, size) == WithShape(x, Channels(x), size)

\* torch.cat((a, b), dim=1): every size but the channels must agree.
cat(a, b) ==
    IF a.shape[1] # b.shape[1] \/ Spatial(a) # Spatial(b) THEN Fail(SizeMismatch)
    ELSE Pass(WithShape(b, Channels(a) + Channels(b), Spatial(b)))

\* x += other: other must broadcast to the shape of x.
iadd(x, other) ==
    IF \E d \in 1..5 : other.shape[d] # x.shape[d] /\ other.shape[d] # 1
    THEN Fail(SizeMismatch)
    ELSE Pass(x)

\* Decoder.forward up to the join: x resized (interpolation) or upsampled.
Decoder_upsampled(self, encoder_features, x) ==
    IF self.upsample = None THEN Pass(interpolate(x, Spatial(encoder_features)))
    ELSE ConvTranspose3d_forward(self.upsample[1], x)

\* Decoder.forward up to the basic module: the two tensors joined.
Decoder_joined(self, encoder_features, x) ==
    IF ~Decoder_upsampled(self, encoder_features, x).ok
    THEN Decoder_upsampled(self, encoder_features, x)
    ELSE IF self.upsample = None
    THEN cat(encoder_features, Decoder_upsampled(self, encoder_features, x).val)
    ELSE iadd(Decoder_upsampled(self, encoder_features, x).val, encoder_features)

Decoder_forward(self, encoder_features, x) ==
    IF ~Decoder_joined(self, encoder_features, x).ok
    THEN Decoder_joined(self, encoder_features, x)
    ELSE DoubleConv_forward(self.basic_module, Decoder_joined(self, encoder_features, x).val)

\* --------------------------------------------------------------- UNet3D
\* [starting_feature_maps * 2 ** k for k in range(num_levels)]
get_feature_maps(starting_feature_maps, num_levels) ==
    [k \in 1..num_levels |-> starting_feature_maps * 2 ^ (k - 1)]

build_encoder(feature_maps, config) ==
    [i \in 1..Len(feature_maps) |->
        IF i = 1 THEN Encoder(config.in_channels, feature_maps[i], config, FALSE)
        ELSE Encoder(feature_maps[i - 1], feature_maps[i], config, TRUE)]

reversed(s) == [i \in 1..Len(s) |-> s[Len(s) + 1 - i]]

\* Mutant: the input width is that of the deeper stage alone.
decoder_features_without_skip(feature_maps) ==
    [i \in 1..(Len(feature_maps) - 1) |->
        [in_feature_num |-> reversed(feature_maps)[i],
         out_feature_num |-> reversed(feature_maps)[i + 1]]]

\* _build_decoder: the in_feature_num and out_feature_num of each stage.
decoder_features(feature_maps) ==
    [i \in 1..(Len(feature_maps) - 1) |->
        [in_feature_num |-> reversed(feature_maps)[i] + reversed(feature_maps)[i + 1],
         out_feature_num |-> reversed(feature_maps)[i + 1]]]

build_decoder(feature_maps, config_decoder) ==
    [i \in 1..Len(decoder_features(feature_maps)) |->
        Decoder(decoder_features(feature_maps)[i].in_feature_num,
                decoder_features(feature_maps)[i].out_feature_num, config_decoder)]

\* UNet3D.__init__
UNet3D(config) ==
    LET feature_maps == get_feature_maps(config.feature_maps, config.num_levels)
    IN  [encoders |-> build_encoder(feature_maps, config),
         decoders |-> build_decoder(feature_maps, config),
         final_conv |-> Conv3d(feature_maps[1], config.out_channels, 1, 0)]

\* ------------------------------------------------------------- the state
VARIABLES
    kind,           \* which class the metric object is: "Dice" or "GeneralizedDice"
    num_classes,    \* self._num_classes
    ignore_index,   \* self._ignore_index (Optional)
    reduction,      \* self._reduction: "None" or "mean"
    constructed,    \* the outcome of __init__
    cm,             \* self._cm.confusion_matrix
    metric,         \* self._metric (Optional expression)
    last,           \* the latest method call: [op, weights, out]
    fed,            \* history: the bag of samples passed to update since the latest reset
    registry,       \* MetricsFactory._metrics
    registered,     \* history: per name, the creator of the latest register call (Optional)
    nregister,      \* history: the number of register calls
    call,           \* the latest factory call: [op, name, out]
    y,              \* the tensor of indices handed to to_onehot
    y_classes,      \* the num_classes of the latest to_onehot call (0: none yet)
    y_ohe,          \* the outcome of the latest to_onehot call
    y2,             \* torch.argmax(y_ohe, dim=1) (Optional)
    config,         \* the ModelConfiguration the network is built from
    net,            \* the UNet3D: its encoders, decoders and final_conv
    input,          \* the feature map forward is called with
    x,              \* forward's x: the outcome of the latest layer
    encoders_features,  \* forward's list of recorded encoder outputs
    pc,             \* where forward is
    stage,          \* the number of iterations done of the loop forward is in
    joins           \* history: what each decoder stage run so far was handed

metric_vars == <<kind, num_classes, ignore_index, reduction, constructed, cm, metric,
                 last, fed>>
factory_vars == <<registry, registered, nregister, call>>
utility_vars == <<y, y_classes, y_ohe, y2>>
network_vars == <<config, net, input, x, encoders_features, pc, stage, joins>>
vars == <<metric_vars, factory_vars, utility_vars, network_vars>>

\* ------------------------------------------------------------ the inputs
\* An output carries one sample per call here: as far as the matrix goes, a
\* larger batch is a sequence of such calls.
BatchSizes == {1}

\* The outputs (y_pred, y) of at most n samples over C classes.
Outputs(C, n) ==
    UNION {[1..2 -> [1..N -> Classes(C)]] : N \in {b \in BatchSizes : b <= n}}

\* The weight tensors passed to update: of the right length, the first j
\* classes weighted MaxWeight and the others 1, for j = 0 (all ones), 1 and C
\* (uniform); of a wrong length (one short, one long), uniform.
WeightTensors(C) ==
    {[k \in 1..C |-> IF k <= j THEN MaxWeight ELSE 1] : j \in {0, 1, C}}
    \cup {[k \in 1..L |-> MaxWeight] : L \in {C - 1, C + 1} \ {0}}

WeightArguments(C) == {None} \cup {Some(w) : w \in WeightTensors(C)}

IgnoreIndexArguments(C) == {None} \cup {Some(i) : i \in -1..C}

\* The samples of an output, as a bag.
SamplesOf(output) ==
    LET pairs == {<<output[1][n], output[2][n]>> : n \in 1..Len(output[2])}
    IN  [p \in pairs |-> Cardinality({n \in 1..Len(output[2]) :
                                         <<output[1][n], output[2][n]>> = p})]

\* ---------------------------------------------------------- construction
\* Dice.__init__: the outcome and self._metric.
DiceInit(C, ign, red) ==
    LET built == compute_dice_coefficient(C, ign)
    IN  IF ~built.ok THEN [outcome |-> Raise(built.err), metric |-> None]
        ELSE [outcome |-> ReturnNone,
              metric |-> Some(IF red = "mean" THEN mean(built.val) ELSE built.val)]

\* GeneralizedDice.__init__
GeneralizedDiceInit(C, ign, red) == [outcome |-> ReturnNone, metric |-> None]

Call(op, weights, out) == [op |-> op, weights |-> weights, out |-> out]

MetricIdle ==
    /\ kind = "Dice" /\ num_classes = 1 /\ ignore_index = None /\ reduction = "None"
    /\ constructed = ReturnNone
    /\ cm = ZeroMatrix(1)
    /\ metric = DiceInit(1, None, "None").metric
    /\ last = Call("__init__", None, ReturnNone)
    /\ fed = EmptyBag

MetricInit ==
    /\ kind \in {"Dice", "GeneralizedDice"}
    /\ num_classes \in 1..MaxClasses
    /\ ignore_index \in IgnoreIndexArguments(num_classes)
    /\ reduction \in {"None", "mean"}
    /\ LET made == IF kind = "Dice"
                   THEN DiceInit(num_classes, ignore_index, reduction)
                   ELSE GeneralizedDiceInit(num_classes, ignore_index, reduction)
       IN  /\ constructed = made.outcome
           /\ metric = made.metric
           /\ last = Call("__init__", None, made.outcome)
    /\ cm = ZeroMatrix(num_classes)
    /\ fed = EmptyBag

\* --------------------------------------------------------------- Dice
fixed == <<kind, num_classes, ignore_index, reduction, constructed>>

\* Mutant: reset leaves the matrix as it is.
DiceReset_keeps_matrix ==
    /\ kind = "Dice" /\ constructed.ok
    /\ last' = Call("reset", None, ReturnNone)
    /\ fed' = EmptyBag
    /\ UNCHANGED <<fixed, cm, metric, factory_vars, utility_vars, network_vars>>

DiceReset ==
    /\ kind = "Dice" /\ constructed.ok
    /\ cm' = ZeroMatrix(num_classes)
    /\ last' = Call("reset", None, ReturnNone)
    /\ fed' = EmptyBag
    /\ UNCHANGED <<fixed, metric, factory_vars, utility_vars, network_vars>>

DiceCompute ==
    /\ kind = "Dice" /\ constructed.ok
    /\ last' = Call("compute", None, Evaluate(metric[1], cm, num_classes))
    /\ UNCHANGED <<fixed, cm, metric, fed, factory_vars, utility_vars, network_vars>>

DiceUpdate(output) ==
    /\ kind = "Dice" /\ constructed.ok
    /\ cm' = cm_update(cm, num_classes, output)
    /\ last' = Call("update", None, ReturnNone)
    /\ fed' = fed (+) SamplesOf(output)
    /\ UNCHANGED <<fixed, metric, factory_vars, utility_vars, network_vars>>

\* ---------------------------------------------------- GeneralizedDice
\* Mutant: reset drops the expression along with the matrix.
GeneralizedDiceReset_clears_metric ==
    /\ kind = "GeneralizedDice" /\ constructed.ok
    /\ cm' = ZeroMatrix(num_classes)
    /\ metric' = None
    /\ last' = Call("reset", None, ReturnNone)
    /\ fed' = EmptyBag
    /\ UNCHANGED <<fixed, factory_vars, utility_vars, network_vars>>

GeneralizedDiceReset ==
    /\ kind = "GeneralizedDice" /\ constructed.ok
    /\ cm' = ZeroMatrix(num_classes)
    /\ last' = Call("reset", None, ReturnNone)
    /\ fed' = EmptyBag
    /\ UNCHANGED <<fixed, metric, factory_vars, utility_vars, network_vars>>

GeneralizedDiceCompute ==
    /\ kind = "GeneralizedDice" /\ constructed.ok
    /\ last' = Call("compute", None,
                    IF metric = None THEN Raise(NoneHasNoCompute)
                    ELSE Evaluate(metric[1], cm, num_classes))
    /\ UNCHANGED <<fixed, cm, metric, fed, factory_vars, utility_vars, network_vars>>

\* Mutant: the expression is built by the first update only.
GeneralizedDiceUpdate_cached(output, weights) ==
    /\ kind = "GeneralizedDice" /\ constructed.ok
    /\ LET built == compute_generalized_dice_coefficient(num_classes, weights, ignore_index)
       IN  IF ~built.ok
           THEN /\ last' = Call("update", weights, Raise(built.err))
                /\ UNCHANGED <<metric, cm, fed>>
           ELSE /\ metric' = IF metric # None THEN metric
                              ELSE Some(IF reduction = "mean" THEN mean(built.val)
                                        ELSE built.val)
                /\ cm' = cm_update(cm, num_classes, output)
                /\ last' = Call("update", weights, ReturnNone)
                /\ fed' = fed (+) SamplesOf(output)
    /\ UNCHANGED <<fixed, factory_vars, utility_vars, network_vars>>

\* Mutant: the batch is accumulated before the expression is built.
GeneralizedDiceUpdate_accumulating_first(output, weights) ==
    /\ kind = "GeneralizedDice" /\ constructed.ok
    /\ cm' = cm_update(cm, num_classes, output)
    /\ LET built == compute_generalized_dice_coefficient(num_classes, weights, ignore_index)
       IN  IF ~built.ok
           THEN /\ last' = Call("update", weights, Raise(built.err))
                /\ UNCHANGED <<metric, fed>>
           ELSE /\ metric' = Some(IF reduction = "mean" THEN mean(built.val) ELSE built.val)
                /\ last' = Call("update", weights, ReturnNone)
                /\ fed' = fed (+) SamplesOf(output)
    /\ UNCHANGED <<fixed, factory_vars, utility_vars, network_vars>>

GeneralizedDiceUpdate(output, weights) ==
    /\ kind = "GeneralizedDice" /\ constructed.ok
    /\ LET built == compute_generalized_dice_coefficient(num_classes, weights, ignore_index)
       IN  IF ~built.ok
           THEN /\ last' = Call("update", weights, Raise(built.err))
                /\ UNCHANGED <<metric, cm, fed>>
           ELSE /\ metric' = Some(IF reduction = "mean" THEN mean(built.val) ELSE built.val)
                /\ cm' = cm_update(cm, num_classes, output)
                /\ last' = Call("update", weights, ReturnNone)
                /\ fed' = fed (+) SamplesOf(output)
    /\ UNCHANGED <<fixed, factory_vars, utility_vars, network_vars>>

MetricNext ==
    \/ DiceReset
    \/ DiceCompute
    \/ \E output \in Outputs(num_classes, MaxSamples - Total(cm, num_classes)) :
          DiceUpdate(output)
    \/ GeneralizedDiceReset
    \/ GeneralizedDiceCompute
    \/ \E output \in Outputs(num_classes, MaxSamples - Total(cm, num_classes)) :
          \E weights \in WeightArguments(num_classes) :
             GeneralizedDiceUpdate(output, weights)

\* ------------------------------------------------------- MetricsFactory
\* class Metric(Enum): each member has a name and a value.
Member(name, value) == [type |-> "Metric", name |-> name, value |-> value]
Str(s) == [type |-> "str", str |-> s]

Metric ==
    { Member("Dice", "Dice"),
      Member("GeneralizedDice", "GeneralizeDice"),
      Member("Accuracy", "Accuracy"),
      Member("Precision", "Precision"),
      Member("MeanAbsoluteError", "MeanAbsoluteError"),
      Member("MeanPairwiseDistance", "MeanPairwiseDistance"),
      Member("MeanSquaredError", "MeanSquaredError"),
      Member("Recall", "Recall"),
      Member("RootMeanSquaredError", "RootMeanSquaredError"),
      Member("TopKCategoricalAccuracy", "TopKCategoricalAccuracy"),
      Member("IoU", "IoU"),
      Member("mIoU", "mIoU") }

\* MetricsFactory.__init__: self._metrics, a dict from names to constructors.
MetricsFactoryInit ==
    [name \in {"Accuracy", "Precision", "MeanAbsoluteError", "MeanPairwiseDistance",
               "MeanSquaredError", "Recall", "RootMeanSquaredError",
               "TopKCategoricalAccuracy", "IoU", "mIoU", "Dice"} |->
        IF name = "Dice" THEN "samitorch.metrics.metric.Dice"
        ELSE "ignite.metrics." \o name]

NoInstance == [class |-> "", args |-> <<>>]
\* metric(*args, **kwargs): the instance the constructor is asked for.
Instantiate(creator, args) == [class |-> creator, args |-> args]

\* Mutant: an enum tag is resolved through its value.
LookupKey_by_value(m) == IF m.type = "Metric" THEN m.value ELSE m.str

\* metric.name if isinstance(metric, Metric) else metric
LookupKey(m) == IF m.type = "Metric" THEN m.name ELSE m.str

create_metric(metrics, m, args) ==
    IF LookupKey(m) \in DOMAIN metrics
    THEN [ok |-> TRUE, err |-> "", val |-> Instantiate(metrics[LookupKey(m)], args)]
    ELSE [ok |-> FALSE, err |-> KeyError, val |-> NoInstance]

\* Mutant: an existing binding is kept.
register_if_absent(metrics, m, creator) ==
    [name \in DOMAIN metrics \cup {m} |->
        IF name \in DOMAIN metrics THEN metrics[name] ELSE creator]

\* self._metrics[metric] = creator
register(metrics, m, creator) ==
    [name \in DOMAIN metrics \cup {m} |-> IF name = m THEN creator ELSE metrics[name]]

\* The inputs of the factory's calls.
RegisterNames == {"Dice", "GeneralizedDice", "GeneralizeDice", "MyMetric"}
Creators == {"samitorch.metrics.metric.Dice", "samitorch.metrics.metric.GeneralizedDice",
             "MyMetric"}
CreateArguments == Metric \cup {Str(s) : s \in RegisterNames \cup {"Accuracy", "Unknown"}}
ArgumentLists == {<<2>>, <<3, "mean">>}

FactoryCall(op, m, creator, args, out) ==
    [op |-> op, metric |-> m, creator |-> creator, args |-> args, out |-> out]

FactoryInit ==
    /\ registry = MetricsFactoryInit
    /\ registered = [name \in RegisterNames |-> None]
    /\ nregister = 0
    /\ call = FactoryCall("__init__", Str(""), "", <<>>,
                          [ok |-> TRUE, err |-> "", val |-> NoInstance])

CreateMetric(m, args) ==
    /\ call' = FactoryCall("create_metric", m, "", args, create_metric(registry, m, args))
    /\ UNCHANGED <<registry, registered, nregister, metric_vars, utility_vars, network_vars>>

Register(m, creator) ==
    /\ nregister < MaxRegister
    /\ registry' = register(registry, m, creator)
    /\ registered' = [registered EXCEPT ![m] = Some(creator)]
    /\ nregister' = nregister + 1
    /\ call' = FactoryCall("register", Str(m), creator, <<>>,
                           [ok |-> TRUE, err |-> "", val |-> NoInstance])
    /\ UNCHANGED <<metric_vars, utility_vars, network_vars>>

FactoryNext ==
    \/ \E m \in CreateArguments : \E args \in ArgumentLists : CreateMetric(m, args)
    \/ \E m \in RegisterNames : \E creator \in Creators : Register(m, creator)

\* ------------------------------------------------------------ to_onehot
\* The shapes (N, d1, ..., dn) of the index tensors, and the tensors: int64,
\* every element a label in 0..MaxLabel.
IndexShapes == {<<1>>, <<2>>, <<4>>, <<2, 2>>, <<1, 2, 2>>, <<2, 1, 2>>}
IndexTensors ==
    UNION {{Tensor("int64", shape, data) : data \in [IndicesOf(shape) -> 0..MaxLabel]} :
              shape \in IndexShapes}
ClassCounts == 1..(MaxLabel + 1)

NoOnehot == [ok |-> TRUE, err |-> "", val |-> NoTensor]

UtilityIdle ==
    /\ y = Tensor("int64", <<1>>, [ix \in IndicesOf(<<1>>) |-> 0])
    /\ y_classes = 0
    /\ y_ohe = NoOnehot
    /\ y2 = None

UtilityInit ==
    /\ y \in IndexTensors
    /\ y_classes = 0
    /\ y_ohe = NoOnehot
    /\ y2 = None

\* y_ohe = to_onehot(y, num_classes)
ToOnehot(C) ==
    /\ y_classes' = C
    /\ y_ohe' = to_onehot(y, C)
    /\ y2' = None
    /\ UNCHANGED <<y, metric_vars, factory_vars, network_vars>>

\* y2 = torch.argmax(y_ohe, dim=1)
Argmax ==
    /\ y_classes > 0 /\ y_ohe.ok /\ y2 = None
    /\ y2' = Some(argmax(y_ohe.val, 1))
    /\ UNCHANGED <<y, y_classes, y_ohe, metric_vars, factory_vars, network_vars>>

UtilityNext ==
    \/ \E C \in ClassCounts : ToOnehot(C)
    \/ Argmax

\* ------------------------------------------------------- UNet3D.forward
\* The configurations: the fields of ModelConfiguration the network reads.
\* The convolutions are the padded ones DoubleConv asks for (kernel 3 with one
\* voxel of padding a side, replicated or the layer's own).
BaseWidths == {1, 2, 8}
Paddings == {None, Some(<<1, 1, 1, 1, 1, 1>>)}
Configs ==
    [feature_maps : BaseWidths, num_levels : 1..MaxLevels,
     in_channels : {1, 2}, out_channels : {1, 3},
     conv_kernel_size : {3}, padding : Paddings,
     pool_kernel_size : {2}, scale_factor : {2},
     interpolation : BOOLEAN]

\* The volumes (D, H, W); every layer treats the three axes alike, so the
\* sides are taken in increasing order.
Volumes ==
    {<<d, h, w>> : d \in 1..MaxSide, h \in 1..MaxSide, w \in 1..MaxSide} \ 
        {v \in (1..MaxSide) \X (1..MaxSide) \X (1..MaxSide) : v[1] > v[2] \/ v[2] > v[3]}

Inputs(cfg) == {FeatureMap(<<2, cfg.in_channels>> \o v, <<"input", 0>>) : v \in Volumes}

Min(a, b) == IF a < b THEN a ELSE b

NetworkStart(cfg, t) ==
    /\ config = cfg
    /\ net = UNet3D(cfg)
    /\ input = t
    /\ x = Pass(t)
    /\ encoders_features = <<>>
    /\ pc = "encoders"
    /\ stage = 0
    /\ joins = <<>>

NetworkIdle ==
    NetworkStart([feature_maps |-> 1, num_levels |-> 1, in_channels |-> 1,
                  out_channels |-> 1, conv_kernel_size |-> 3, padding |-> None,
                  pool_kernel_size |-> 2, scale_factor |-> 2, interpolation |-> TRUE],
                 FeatureMap(<<2, 1, 1, 1, 1>>, <<"input", 0>>))

NetworkInit == \E cfg \in Configs : \E t \in Inputs(cfg) : NetworkStart(cfg, t)

network_frame == <<config, net, input, metric_vars, factory_vars, utility_vars>>

From(origin, out) ==
    IF out.ok THEN Pass(FeatureMap(out.val.shape, origin)) ELSE out

\* for encoder in self.encoders: x = encoder(x); encoders_features.insert(0, x)
Encode ==
    /\ pc = "encoders" /\ stage < Len(net.encoders)
    /\ LET out == Encoder_forward(net.encoders[stage + 1], x.val)
       IN  /\ x' = From(<<"encoder", stage>>, out)
           /\ encoders_features' =
                 IF out.ok THEN <<x'.val>> \o encoders_features ELSE encoders_features
           /\ pc' = IF ~out.ok THEN "raised"
                    ELSE IF stage + 1 = Len(net.encoders) THEN "slice" ELSE "encoders"
    /\ stage' = stage + 1
    /\ UNCHANGED <<joins, network_frame>>

\* Mutant: the slice drops the last element, the recording of stage 0.
Slice_drops_last ==
    /\ pc = "slice"
    /\ encoders_features' = SubSeq(encoders_features, 1, Len(encoders_features) - 1)
    /\ pc' = IF Min(Len(net.decoders), Len(encoders_features) - 1) = 0
             THEN "final" ELSE "decoders"
    /\ stage' = 0
    /\ UNCHANGED <<x, joins, network_frame>>

\* encoders_features = encoders_features[1:]
Slice ==
    /\ pc = "slice"
    /\ encoders_features' = Tail(encoders_features)
    /\ pc' = IF Min(Len(net.decoders), Len(encoders_features) - 1) = 0
             THEN "final" ELSE "decoders"
    /\ stage' = 0
    /\ UNCHANGED <<x, joins, network_frame>>

\* for decoder, encoder_features in zip(self.decoders, encoders_features):
\*     x = decoder(encoder_features, x)
Decode ==
    /\ pc = "decoders" /\ stage < Min(Len(net.decoders), Len(encoders_features))
    /\ LET decoder == net.decoders[stage + 1]
           encoder_features == encoders_features[stage + 1]
           upsampled == Decoder_upsampled(decoder, encoder_features, x.val)
           joined == Decoder_joined(decoder, encoder_features, x.val)
           out == Decoder_forward(decoder, encoder_features, x.val)
       IN  /\ x' = From(<<"decoder", stage>>, out)
           /\ joins' = Append(joins,
                 [decoder |-> stage,
                  features |-> encoder_features.origin,
                  x |-> x.val.origin,
                  received |-> Channels(x.val),
                  joined_channels |-> IF joined.ok THEN Channels(joined.val) ELSE 0,
                  mode |-> IF decoder.upsample = None THEN "cat" ELSE "add",
                  upsampled |-> upsampled.ok,
                  joined |-> joined.ok,
                  left |-> Spatial(encoder_features),
                  right |-> IF upsampled.ok THEN Spatial(upsampled.val) ELSE <<>>])
           /\ pc' = IF ~out.ok THEN "raised"
                    ELSE IF stage + 1 = Min(Len(net.decoders), Len(encoders_features))
                    THEN "final" ELSE "decoders"
    /\ stage' = stage + 1
    /\ UNCHANGED <<encoders_features, network_frame>>

\* x = self.final_conv(x); x = self.final_activation(x); return x
Final ==
    /\ pc = "final"
    /\ LET out == Conv3d_forward(net.final_conv, x.val)
       IN  /\ x' = From(<<"final", 0>>, out)
           /\ pc' = IF out.ok THEN "returned" ELSE "raised"
    /\ UNCHANGED <<encoders_features, stage, joins, network_frame>>

\* encoder = Encoder(in_channels, out_channels, DoubleConv, config)
\* output = encoder(input): one encoder on its own, apply_pooling not given.
EncoderAlone ==
    /\ pc = "encoders" /\ stage = 0
    /\ x' = From(<<"encoder alone", 0>>,
                 Encoder_forward(Encoder(config.in_channels, config.feature_maps, config,
                                         apply_pooling_default), x.val))
    /\ pc' = "alone"
    /\ UNCHANGED <<encoders_features, stage, joins, network_frame>>

NetworkNext == Encode \/ Slice \/ Decode \/ Final \/ EncoderAlone

\* ---------------------------------------------------- the specifications
\* The life of one metric object, a Dice or a GeneralizedDice.
Init == MetricInit /\ FactoryInit /\ UtilityIdle /\ NetworkIdle
Next == MetricNext
Spec == Init /\ [][Next]_vars

\* The life of one MetricsFactory.
InitFactory == MetricIdle /\ FactoryInit /\ UtilityIdle /\ NetworkIdle
SpecFactory == InitFactory /\ [][FactoryNext]_vars

\* to_onehot applied to one tensor of indices, and the arg-max of its result.
FactoryIdle == FactoryInit
InitUtility == MetricIdle /\ FactoryIdle /\ UtilityInit /\ NetworkIdle
SpecUtility == InitUtility /\ [][UtilityNext]_vars

\* One UNet3D built from a configuration, and one call of its forward.
InitNetwork == MetricIdle /\ FactoryIdle /\ UtilityIdle /\ NetworkInit
SpecNetwork == InitNetwork /\ [][NetworkNext]_vars

\* ------------------------------------------------- reading the values
\* Of a quotient q = num / (den + eps), with integers num, den >= 0 and
\* 0 < eps < 1.
IsZero(q) == q.num = 0
InUnitInterval(q) == q.num >= 0 /\ q.den >= 0 /\ q.num <= q.den
\* 1 up to the guard: num = den > 0, the quotient den / (den + eps).
IsOneUpToEpsilon(q) == q.num = q.den /\ q.den > 0
StrictlyInside(q) == 0 < q.num /\ q.num < q.den

\* The sequence v without its position k (0-based).
DeleteAt(v, k) == SubSeq(v, 1, k) \o SubSeq(v, k + 2, Len(v))

Computed == last.op = "compute" /\ last.out.ok
ValidIgnoreIndex == ignore_index # None /\ 0 <= ignore_index[1] /\ ignore_index[1] < num_classes
IgnoreIndexErrors == {IgnoreIndexNegative, IgnoreIndexTooLarge}
Ones(n) == [k \in 1..n |-> 1]

\* The class (0-based) the i-th reported value belongs to.
ClassAt(i) == IF ignore_index = None \/ i - 1 < ignore_index[1] THEN i - 1 ELSE i

AllClassesPresent ==
    \A k \in 1..num_classes :
        sum_dim1(cm, num_classes)[k] + sum_dim0(cm, num_classes)[k] > 0

PerfectlyDiagonal ==
    \A i, j \in Classes(num_classes) : i # j => cm[i][j] = 0

\* The per-class vector before any class is removed.
Unfiltered ==
    IF kind = "Dice" THEN dice(cm, num_classes)
    ELSE generalized_dice(cm, num_classes, metric[1].weights).val.items

\* The per-class values the metric retains.
Retained ==
    IF ignore_index = None THEN Unfiltered ELSE DeleteAt(Unfiltered, ignore_index[1])

\* ------------------------------------------------------------ the claims

\* C1: on a confusion matrix in which every class has a nonzero row sum plus
\* column sum, every per-class value compute_dice_coefficient reports,
\* 2*diag[k] / (row_sum[k] + col_sum[k] + EPSILON), lies in [0, 1].
C1_DiceInUnitInterval ==
    (kind = "Dice" /\ Computed /\ AllClassesPresent)
        => \A i \in 1..Len(last.out.val.items) : InUnitInterval(last.out.val.items[i])

C1_Witness ==
    /\ kind = "Dice" /\ Computed /\ AllClassesPresent /\ num_classes >= 2
    /\ \E i \in 1..Len(last.out.val.items) : StrictlyInside(last.out.val.items[i])

\* C2 as stated, taken on the perfectly diagonal matrices that hold at least
\* one sample: compute_dice_coefficient reports 1 (up to the guard) for every
\* class.
C2_DiagonalYieldsAllOnes ==
    (kind = "Dice" /\ Computed /\ PerfectlyDiagonal /\ Total(cm, num_classes) > 0)
        => \A i \in 1..Len(last.out.val.items) : IsOneUpToEpsilon(last.out.val.items[i])

\* C2, amended: on a perfectly diagonal confusion matrix
\* compute_dice_coefficient reports 2d / (2d + EPSILON), 1 up to the guard, for
\* every class whose diagonal entry d is nonzero, and 0 for every class whose
\* diagonal entry is zero.
C2_DiagonalYieldsOneOrZero ==
    (kind = "Dice" /\ Computed /\ PerfectlyDiagonal)
        => \A i \in 1..Len(last.out.val.items) :
              LET q == last.out.val.items[i]
                  d == cm[ClassAt(i)][ClassAt(i)]
              IN  /\ d > 0 => IsOneUpToEpsilon(q) /\ q.num = 2 * d
                  /\ d = 0 => IsZero(q) /\ q.den = 0

C2_Witness ==
    /\ kind = "Dice" /\ Computed /\ PerfectlyDiagonal
    /\ \E i, j \in 1..Len(last.out.val.items) :
          IsOneUpToEpsilon(last.out.val.items[i]) /\ IsZero(last.out.val.items[j])

\* C3: with a valid ignore_index k, the vector compute_dice_coefficient and
\* compute_generalized_dice_coefficient report has length C - 1 and is the
\* unfiltered C-length per-class vector with position k deleted, the other
\* classes in their order.
C3_IgnoreIndexDeletesPosition ==
    (Computed /\ ignore_index # None)
        => /\ ValidIgnoreIndex
           /\ Len(Unfiltered) = num_classes
           /\ Len(last.out.val.items) = num_classes - 1
           /\ last.out.val.items = DeleteAt(Unfiltered, ignore_index[1])
           /\ \A i \in 1..(num_classes - 1) :
                 last.out.val.items[i] = Unfiltered[ClassAt(i) + 1]

C3_Witness ==
    /\ Computed /\ num_classes = 3 /\ ignore_index = Some(1)
    /\ Unfiltered[1] # Unfiltered[3] /\ Unfiltered[2] # Unfiltered[3]
    /\ Unfiltered[1] # Unfiltered[2]

\* C4: with a weight vector of C ones, compute_generalized_dice_coefficient
\* gives what compute_dice_coefficient gives on the same confusion matrix,
\* whatever the ignore_index: the same error, or the same per-class vector.
C4_UnitWeightsReduceToDice ==
    LET plain == DiceInit(num_classes, ignore_index, reduction)
    IN  /\ (kind = "GeneralizedDice" /\ last.op = "update"
              /\ last.weights = Some(Ones(num_classes)))
            => /\ last.out.ok = plain.outcome.ok
               /\ last.out.err = plain.outcome.err
        /\ (kind = "GeneralizedDice" /\ last.op = "compute" /\ metric # None
              /\ metric[1].weights = Some(Ones(num_classes)))
            => /\ plain.outcome.ok
               /\ last.out = Evaluate(plain.metric[1], cm, num_classes)

C4_Witness ==
    /\ kind = "GeneralizedDice" /\ Computed /\ num_classes = 3
    /\ metric[1].weights = Some(Ones(num_classes))
    /\ \E i \in 1..Len(last.out.val.items) : StrictlyInside(last.out.val.items[i])

\* C5 as stated: whenever the weight vector's length differs from C,
\* GeneralizedDice.update fails before any arithmetic, and with the
\* weight-size validation error unless the ignore_index itself is rejected;
\* also when no ignore_index is configured.
C5_WeightSizeAlwaysValidated ==
    (kind = "GeneralizedDice" /\ last.op = "update" /\ last.weights # None
        /\ Len(last.weights[1]) # num_classes)
        => /\ ~last.out.ok
           /\ (ignore_index = None \/ ValidIgnoreIndex) => last.out.err = WeightsSizeMismatch

\* C6: a supplied ignore_index fails validation exactly when it is negative
\* or >= C; for Dice the failure is that of the constructor, for
\* GeneralizedDice (whose constructor never fails) that of update.
C6_IgnoreIndexValidation ==
    /\ kind = "Dice" =>
          /\ constructed.ok <=> (ignore_index = None \/ ValidIgnoreIndex)
          /\ ~constructed.ok => /\ constructed.err \in IgnoreIndexErrors
                                /\ last.op = "__init__"
          /\ (ignore_index # None /\ ignore_index[1] < 0)
                => constructed.err = IgnoreIndexNegative
          /\ (ignore_index # None /\ ignore_index[1] >= num_classes)
                => constructed.err = IgnoreIndexTooLarge
          /\ last.op # "__init__" => last.out.err \notin IgnoreIndexErrors
    /\ kind = "GeneralizedDice" =>
          /\ constructed.ok
          /\ last.op # "update" => last.out.err \notin IgnoreIndexErrors
          /\ last.op = "update" =>
                /\ last.out.err \in IgnoreIndexErrors
                      <=> (ignore_index # None /\ ~ValidIgnoreIndex)
                /\ (ignore_index # None /\ ignore_index[1] < 0)
                      => last.out.err = IgnoreIndexNegative
                /\ (ignore_index # None /\ ignore_index[1] >= num_classes)
                      => last.out.err = IgnoreIndexTooLarge

C6_Witness ==
    /\ kind = "GeneralizedDice" /\ last.op = "update"
    /\ ignore_index = Some(num_classes) /\ last.out.err = IgnoreIndexTooLarge

\* C7: with reduction "mean", compute returns one scalar, the arithmetic mean
\* of the retained per-class values (C of them, C - 1 with an ignore_index);
\* with no reduction it returns the retained per-class vector itself.
C7_MeanReduction ==
    Computed =>
        /\ last.out.val.reduced <=> reduction = "mean"
        /\ last.out.val.items = Retained
        /\ ignore_index # None => Len(last.out.val.items) = num_classes - 1
        /\ (ignore_index = None /\ kind = "Dice") => Len(last.out.val.items) = num_classes

C7_Witness ==
    /\ Computed /\ reduction = "mean" /\ num_classes = 3 /\ ignore_index # None
    /\ last.out.val.reduced /\ Len(last.out.val.items) = 2
    /\ last.out.val.items[1] # last.out.val.items[2]

\* C8: on a Dice metric the matrix is the accumulation of exactly the samples
\* passed to update since the latest reset (all zeros when there are none);
\* reset leaves every entry zero; compute does not change the matrix; and a
\* compute directly after a compute returns the same value.
Accumulated ==
    \A i, j \in Classes(num_classes) : cm[i][j] = CopiesIn(<<j, i>>, fed)

C8_DiceMatrixLifecycle ==
    [][kind = "Dice" =>
          /\ Accumulated /\ Accumulated'
          /\ last'.op = "reset" => cm' = ZeroMatrix(num_classes) /\ fed' = EmptyBag
          /\ last'.op = "compute" => cm' = cm /\ fed' = fed
          /\ last'.op = "update" => Total(cm', num_classes) > Total(cm, num_classes)
          /\ (last.op = "compute" /\ last'.op = "compute") => last'.out = last.out]_vars

C8_Witness ==
    /\ kind = "Dice" /\ Computed /\ Total(cm, num_classes) = MaxSamples
    /\ \E i, j \in Classes(num_classes) : i # j /\ cm[i][j] > 0 /\ cm[j][j] > 0

\* Every name the factory's calls can mention.
AllNames ==
    DOMAIN MetricsFactoryInit \cup RegisterNames
        \cup {m.name : m \in Metric} \cup {m.value : m \in Metric}
        \cup {"Accuracy", "Unknown"}

\* The name a create_metric argument stands for: the string itself, or the
\* member name of an enum tag.
NameOf(m) == IF m \in Metric THEN m.name ELSE m.str

\* C9: create_metric instantiates the constructor bound to the name (for an
\* enum tag, its member name) with the supplied arguments, fails with KeyError
\* exactly when the name has no binding, and leaves the registry unchanged.
C9_CreateMetricLooksUpName ==
    [][call'.op = "create_metric" =>
          LET name == NameOf(call'.metric)
          IN  /\ registry' = registry
              /\ call'.out.ok <=> name \in DOMAIN registry
              /\ call'.out.ok =>
                    call'.out.val = [class |-> registry[name], args |-> call'.args]
              /\ ~call'.out.ok => call'.out.err = KeyError]_vars

C9_Witness ==
    /\ call.op = "create_metric"
    /\ call.metric = Member("GeneralizedDice", "GeneralizeDice")
    /\ call.out.ok
    /\ call.out.val.class = "samitorch.metrics.metric.GeneralizedDice"
    /\ "GeneralizeDice" \notin DOMAIN registry

\* The binding of a name: the constructor, or none.
Binding(metrics, name) == IF name \in DOMAIN metrics THEN Some(metrics[name]) ELSE None

LastWriteWins ==
    \A name \in AllNames :
        Binding(registry, name) =
            IF name \in RegisterNames /\ registered[name] # None
            THEN registered[name]
            ELSE Binding(MetricsFactoryInit, name)

\* C10: each name is bound to the constructor of the latest register call for
\* it, or to its built-in constructor (none, for a name that has none) if it was
\* never registered; register changes the binding of its name only; and
\* create_metric of a name that has been registered succeeds.
C10_RegisterLastWriteWins ==
    [][/\ LastWriteWins /\ LastWriteWins'
       /\ call'.op = "register" =>
             /\ Binding(registry', call'.metric.str) = Some(call'.creator)
             /\ \A name \in AllNames \ {call'.metric.str} :
                   Binding(registry', name) = Binding(registry, name)
       /\ (call'.op = "create_metric" /\ NameOf(call'.metric) \in RegisterNames
             /\ registered'[NameOf(call'.metric)] # None)
             => /\ call'.out.ok
                /\ call'.out.val.class = registered'[NameOf(call'.metric)][1]]_vars

C10_Witness ==
    /\ call.op = "create_metric" /\ call.metric = Str("MyMetric") /\ call.out.ok
    /\ call.out.val.class = "MyMetric"
    /\ nregister = 2
    /\ \A name \in RegisterNames \ {"MyMetric"} : registered[name] = None

\* ---------------------------------------------------- claims on to_onehot
InRange(t, C) == \A ix \in IndicesOf(t.shape) : 0 <= t.data[ix] /\ t.data[ix] < C

\* C11: for an index tensor y of shape (N, d1, ..., dn) with every value in
\* [0, num_classes), to_onehot succeeds and the arg-max of its result along
\* axis 1 is y itself (same shape, same elements); and
\* to_onehot([0, 1, 2, 3], 4) is the 4x4 identity matrix.
C11_OnehotRoundTrip ==
    /\ (y_classes > 0 /\ InRange(y, y_classes)) => y_ohe.ok
    /\ (y_classes > 0 /\ InRange(y, y_classes) /\ y2 # None) => y2[1] = y
    /\ (y_classes = 4 /\ y.shape = <<4>>
          /\ \A i \in 0..3 : y.data[<<i>>] = i) => y_ohe.val = eye(4)

C11_Witness ==
    /\ y2 # None /\ y2[1] = y /\ Len(y.shape) = 3 /\ y_classes = 3
    /\ \E ix, jx \in IndicesOf(y.shape) : y.data[ix] = 0 /\ y.data[jx] = 2

\* C12: for an index tensor of shape (N, d1, ..., dn) with every value in
\* [0, num_classes), to_onehot returns a floating-point tensor of shape
\* (N, num_classes, d1, ..., dn) holding, at every position (n, d1..dn), 1 at
\* the class given by the input value there and 0 at every other class; the
\* input tensor is as it was before the call.
C12_OnehotIndicator ==
    [][/\ y' = y
       /\ InRange(y', y_classes') =>
             /\ y_ohe'.ok
             /\ y_ohe'.val.dtype = "float32"
             /\ y_ohe'.val.shape = <<y.shape[1], y_classes'>> \o Tail(y.shape)
             /\ DOMAIN y_ohe'.val.data = IndicesOf(y_ohe'.val.shape)
             /\ \A ix \in IndicesOf(y.shape) : \A k \in 0..(y_classes' - 1) :
                   y_ohe'.val.data[InsertAt(ix, 1, k)]
                      = IF k = y.data[ix] THEN 1 ELSE 0]_vars

C12_Witness ==
    /\ y_classes = 3 /\ y_ohe.ok /\ y.shape = <<2, 1, 2>>
    /\ y_ohe.val.shape = <<2, 3, 1, 2>>
    /\ y.data[<<0, 0, 0>>] = 2 /\ y.data[<<1, 0, 1>>] = 1
    /\ y_ohe.val.data[<<1, 1, 0, 1>>] = 1 /\ y_ohe.val.data[<<1, 2, 0, 1>>] = 0

\* --------------------------------------------------- claims on the UNet3D
Levels == config.num_levels
Widths == get_feature_maps(config.feature_maps, config.num_levels)
Finished == pc \in {"returned", "raised"}

\* D, H and W are divisible by 2^(levels - 1).
Divisible == \A d \in 1..3 : Spatial(input)[d] % (2 ^ (Levels - 1)) = 0

RestoredShape ==
    /\ pc = "returned"
    /\ x.ok
    /\ x.val.shape = <<input.shape[1], config.out_channels>> \o Spatial(input)

\* C13 as stated: for an input of shape (N, in_channels, D, H, W) with D, H
\* and W divisible by 2^(levels - 1), forward returns a tensor of shape
\* (N, out_channels, D, H, W), with interpolation and with transposed
\* convolutions alike.
C13_ForwardRestoresShape ==
    (Finished /\ Divisible) => RestoredShape

\* The part of C13 the code keeps: with interpolation, or with one level
\* (no decoder at all), the shape is restored.
C13_InterpolationRestoresShape ==
    (Finished /\ Divisible /\ (config.interpolation \/ Levels = 1)) => RestoredShape

C13_Interpolation_Witness ==
    /\ RestoredShape /\ config.interpolation /\ Levels = 3
    /\ Spatial(input) = <<4, 4, 8>> /\ config.out_channels = 3

Halved(v) == [d \in 1..3 |-> v[d] \div 2]

\* What an encoder that pools (kernel and stride 2) makes of the volume of x.
PooledStep ==
    IF \E d \in 1..3 : Spatial(x.val)[d] < 2
    THEN ~x'.ok /\ x'.err = OutputTooSmall
    ELSE x'.ok /\ Spatial(x'.val) = Halved(Spatial(x.val))

\* C14: of the L encoders of a UNet3D, stage 0 has no pooling layer and leaves
\* the volume as it is; every stage 1..L-1 has one, applied to the stage's
\* input, and halves D, H and W (a side below 2 cannot be pooled); and an
\* Encoder built without the apply_pooling argument pools as well.
C14_EncoderPooling ==
    [][/\ net.encoders[1].pooling = None
       /\ \A k \in 2..Levels : net.encoders[k].pooling = Some(2)
       /\ (pc = "encoders" /\ pc' # "alone" /\ stage = 0)
             => x'.ok /\ Spatial(x'.val) = Spatial(x.val)
       /\ (pc = "encoders" /\ pc' # "alone" /\ stage >= 1) => PooledStep
       /\ pc' = "alone" => PooledStep]_vars

C14_Witness ==
    /\ Levels = 3 /\ pc = "slice" /\ stage = 3
    /\ Spatial(input) = <<4, 6, 8>> /\ Spatial(x.val) = <<1, 1, 2>>
    /\ Spatial(encoders_features[2]) = <<2, 3, 4>>
    /\ Spatial(encoders_features[3]) = <<4, 6, 8>>

\* The width of encoder stage k, and the reversed widths w_0, w_1, ...
Width(k) == config.feature_maps * 2 ^ k
W(i) == Width(Levels - 1 - i)
Max(a, b) == IF a > b THEN a ELSE b

\* The first layer of decoder stage i (1-based position) that consumes
\* channels, and the width the stage's block ends with.
DecoderFirstLayer(i) ==
    IF net.decoders[i].upsample = None THEN net.decoders[i].basic_module.conv1.conv
    ELSE net.decoders[i].upsample[1]
DecoderOutWidth(i) == net.decoders[i].basic_module.conv2.conv.out_channels

\* C15: with encoder widths base_width * 2^k and their reversal w_0, w_1, ...,
\* the network has exactly L - 1 decoder stages, and stage i is built with input
\* width w_i + w_(i+1) and output width w_(i+1).
C15_DecoderChannels ==
    /\ Len(net.encoders) = Levels
    /\ \A k \in 0..(Levels - 1) :
          net.encoders[k + 1].basic_module.conv2.conv.out_channels = Width(k)
    /\ Len(net.decoders) = Levels - 1
    /\ \A i \in 0..(Levels - 2) :
          /\ DecoderFirstLayer(i + 1).in_channels = W(i) + W(i + 1)
          /\ DecoderOutWidth(i + 1) = W(i + 1)
          /\ net.decoders[i + 1].upsample # None
                => net.decoders[i + 1].upsample[1].out_channels = W(i + 1)

C15_Witness ==
    /\ Levels = 3 /\ config.feature_maps = 8 /\ pc = "returned"
    /\ DecoderFirstLayer(1).in_channels = 48 /\ DecoderOutWidth(1) = 16
    /\ DecoderFirstLayer(2).in_channels = 24 /\ DecoderOutWidth(2) = 8

\* The widths a DoubleConv is built with: (in, out) of its two sublayers.
SublayerWidths(block) ==
    <<block.conv1.conv.in_channels, block.conv1.conv.out_channels,
      block.conv2.conv.in_channels, block.conv2.conv.out_channels>>

EncoderInWidth(k) == IF k = 0 THEN config.in_channels ELSE Width(k - 1)
DecoderBlockInWidth(i) == IF config.interpolation THEN W(i) + W(i + 1) ELSE W(i + 1)

\* C16: the DoubleConv of an encoder, of input width in and target width out,
\* has a first sublayer from in to max(out // 2, in) and a second from there to
\* out; the DoubleConv of a decoder has a first sublayer from in to out and a
\* second from out to out; the second sublayer always takes what the first gives.
C16_DoubleConvWidths ==
    /\ \A k \in 0..(Levels - 1) :
          SublayerWidths(net.encoders[k + 1].basic_module)
             = <<EncoderInWidth(k), Max(Width(k) \div 2, EncoderInWidth(k)),
                 Max(Width(k) \div 2, EncoderInWidth(k)), Width(k)>>
    /\ \A i \in 0..(Levels - 2) :
          SublayerWidths(net.decoders[i + 1].basic_module)
             = <<DecoderBlockInWidth(i), W(i + 1), W(i + 1), W(i + 1)>>

C16_Witness ==
    /\ pc = "returned" /\ Levels = 2
    /\ config.in_channels = 2 /\ config.feature_maps = 1
    /\ SublayerWidths(net.encoders[1].basic_module) = <<2, 2, 2, 1>>
    /\ SublayerWidths(net.encoders[2].basic_module) = <<1, 1, 1, 2>>
    /\ SublayerWidths(net.decoders[1].basic_module) = <<3, 1, 1, 1>>

OriginsOf(features) == [i \in 1..Len(features) |-> features[i].origin]
\* The recordings of encoder stages 0..n-1, the latest first.
Recordings(n) == [i \in 1..n |-> <<"encoder", n - i>>]

\* C17: forward runs the encoder stages 0..L-1 in order and records each
\* output; the recording of stage L-1 is discarded before the decoders run; the
\* decoder stages run in order, stage i being handed the output of stage i-1
\* (of encoder stage L-1, for i = 0) and the recording of encoder stage L-2-i;
\* no recording is handed to two stages, and once the decoders are through
\* every recording of stages 0..L-2 has been handed to exactly one.
C17_ForwardOrder ==
    /\ pc = "encoders" =>
          /\ OriginsOf(encoders_features) = Recordings(stage)
          /\ stage > 0 => x.val = encoders_features[1]
          /\ joins = <<>>
    /\ pc = "slice" =>
          /\ OriginsOf(encoders_features) = Recordings(Levels)
          /\ x.val = encoders_features[1]
          /\ joins = <<>>
    /\ pc \in {"decoders", "final", "returned"} =>
          /\ OriginsOf(encoders_features) = Recordings(Levels - 1)
          /\ Len(joins) = IF pc = "decoders" THEN stage ELSE Levels - 1
          /\ x.val.origin = IF pc = "returned" THEN <<"final", 0>>
                            ELSE IF Len(joins) = 0 THEN <<"encoder", Levels - 1>>
                            ELSE <<"decoder", Len(joins) - 1>>
    /\ \A i \in 1..Len(joins) :
          /\ joins[i].decoder = i - 1
          /\ joins[i].x = IF i = 1 THEN <<"encoder", Levels - 1>> ELSE <<"decoder", i - 2>>
          /\ joins[i].features = <<"encoder", Levels - 2 - (i - 1)>>
    /\ \A k \in 0..(Levels - 2) :
          /\ Cardinality({i \in 1..Len(joins) : joins[i].features = <<"encoder", k>>}) <= 1
          /\ pc \in {"final", "returned"} =>
                Cardinality({i \in 1..Len(joins) : joins[i].features = <<"encoder", k>>}) = 1

C17_Witness ==
    /\ pc = "returned" /\ Levels = 3 /\ Len(joins) = 2
    /\ joins[1].x = <<"encoder", 2>> /\ joins[1].features = <<"encoder", 1>>
    /\ joins[2].x = <<"decoder", 0>> /\ joins[2].features = <<"encoder", 0>>

\* C18 as stated: a decoder stage has no upsample layer exactly when the
\* configuration selects interpolation, and then resizes x to the encoder
\* feature map's volume and concatenates, the two volumes being equal whatever
\* the input volume; otherwise it applies its transposed convolution, which
\* projects to the output width, and joins by addition.
C18_DecoderJoin ==
    /\ \A i \in 1..Len(net.decoders) :
          /\ net.decoders[i].upsample = None <=> config.interpolation
          /\ ~config.interpolation =>
                net.decoders[i].upsample[1].out_channels = W(i)
    /\ \A i \in 1..Len(joins) :
          /\ joins[i].mode = IF config.interpolation THEN "cat" ELSE "add"
          /\ joins[i].upsampled /\ joins[i].joined
          /\ config.interpolation => joins[i].left = joins[i].right

\* The part of C18 the code keeps: the layers as the claim has them, and the
\* join of the interpolation mode.
C18_InterpolationJoin ==
    /\ \A i \in 1..Len(net.decoders) :
          /\ net.decoders[i].upsample = None <=> config.interpolation
          /\ ~config.interpolation =>
                net.decoders[i].upsample[1].out_channels = W(i)
    /\ \A i \in 1..Len(joins) :
          /\ joins[i].mode = IF config.interpolation THEN "cat" ELSE "add"
          /\ config.interpolation =>
                joins[i].upsampled /\ joins[i].joined /\ joins[i].left = joins[i].right

C18_Interpolation_Witness ==
    /\ config.interpolation /\ pc = "returned" /\ Levels = 3
    /\ Spatial(input) = <<5, 6, 7>>
    /\ joins[1].left = <<2, 3, 3>> /\ joins[1].right = <<2, 3, 3>>
    /\ joins[2].left = <<5, 6, 7>> /\ joins[2].right = <<5, 6, 7>>

\* --------------------------------------- further claims on GeneralizedDice
\* From the samples fed since the latest reset: the diagonal entry, the row
\* sum and the column sum of class k (0-based).
FedDiag(k) == CopiesIn(<<k, k>>, fed)
FedRow(k) == SumSeq([j \in 1..num_classes |-> CopiesIn(<<j - 1, k>>, fed)])
FedCol(k) == SumSeq([i \in 1..num_classes |-> CopiesIn(<<k, i - 1>>, fed)])

\* 2*diag[k]*w[k] / ((row_sum[k] + col_sum[k])*w[k] + EPSILON), for every class.
WeightedFormula(w) ==
    [k \in 1..num_classes |->
        [num |-> 2 * FedDiag(k - 1) * w[k],
         den |-> (FedRow(k - 1) + FedCol(k - 1)) * w[k],
         eps |-> EPSILON]]

WeightVector(weights) == weights # None /\ Len(weights[1]) = num_classes

\* C19: every update that returns replaces the expression by one over the
\* weights of that call; nothing else changes it; and compute returns the
\* weighted formula over the matrix of all the samples fed since the latest
\* reset and the weights of the expression, those of the latest update that
\* returned (less the ignored class, and reduced if so configured).
C19_LatestWeightsOnly ==
    [][kind = "GeneralizedDice" =>
          /\ (last'.op = "update" /\ last'.out.ok)
                => metric' # None /\ metric'[1].weights = last'.weights
          /\ ~(last'.op = "update" /\ last'.out.ok) => metric' = metric
          /\ (last'.op = "compute" /\ metric # None /\ WeightVector(metric[1].weights))
                => /\ last'.out.ok
                   /\ last'.out.val.items =
                         IF ignore_index = None
                         THEN WeightedFormula(metric[1].weights[1])
                         ELSE DeleteAt(WeightedFormula(metric[1].weights[1]),
                                       ignore_index[1])]_vars

C19_Witness ==
    /\ kind = "GeneralizedDice" /\ Computed /\ num_classes = 3
    /\ Total(cm, num_classes) = 2
    /\ metric[1].weights = Some(<<MaxWeight, 1, 1>>)
    /\ last.out.val.items[1] = [num |-> 2 * MaxWeight, den |-> 3 * MaxWeight, eps |-> EPSILON]

ValidationErrors == {IgnoreIndexNegative, IgnoreIndexTooLarge, WeightsSizeMismatch}

\* C20: an update that fails validation (ignore_index negative or >= C, or a
\* weight vector of the wrong length) leaves the matrix and the expression as
\* they were, so that a later compute evaluates the samples of the updates
\* that returned, and only those.
C20_FailedUpdateAccumulatesNothing ==
    [][kind = "GeneralizedDice" =>
          /\ (last'.op = "update" /\ ~last'.out.ok) =>
                /\ cm' = cm /\ metric' = metric /\ fed' = fed
          /\ (last'.op = "update" /\ ignore_index # None /\ ~ValidIgnoreIndex) =>
                ~last'.out.ok /\ last'.out.err \in ValidationErrors
          /\ (last'.op = "update" /\ ValidIgnoreIndex /\ last'.weights # None
                /\ Len(last'.weights[1]) # num_classes) =>
                ~last'.out.ok /\ last'.out.err = WeightsSizeMismatch
          /\ Accumulated'
          /\ (last'.op = "compute" /\ metric # None) =>
                last'.out = Evaluate(metric[1], cm, num_classes)]_vars

C20_Witness ==
    /\ kind = "GeneralizedDice" /\ last.op = "update"
    /\ last.out.err = WeightsSizeMismatch
    /\ Total(cm, num_classes) = 1 /\ metric # None

\* ------------------------------------------- the channels through UNet3D
\* The channel count of the tensor the first channel-consuming layer of the
\* decoder stage of joins[i] is given: the joined tensor for the DoubleConv of
\* the interpolation mode, x for the transposed convolution.
GivenChannels(i) ==
    IF net.decoders[i].upsample = None THEN joins[i].joined_channels
    ELSE joins[i].received

EncodersConnect ==
    (pc = "encoders" /\ stage < Levels) =>
        /\ net.encoders[stage + 1].basic_module.conv1.conv.in_channels = Channels(x.val)
        /\ Channels(x.val) = IF stage = 0 THEN config.in_channels ELSE Width(stage - 1)

FinalConnects ==
    /\ pc = "final" => net.final_conv.in_channels = Channels(x.val)
    /\ net.final_conv.in_channels =
          IF Levels = 1 THEN Width(0) ELSE DecoderOutWidth(Levels - 1)

\* C21 as stated: for every base width, every level count and both upsampling
\* strategies, each encoder stage is declared with the channel count of the
\* tensor it is given (in_channels for stage 0, width[k-1] for stage k), each
\* decoder stage's first channel-consuming layer is declared with the channel
\* count of the tensor it is given in forward, and final_conv is declared with
\* the last decoder's output width (the width of stage 0 when L = 1).
C21_ChannelsConnect ==
    /\ EncodersConnect
    /\ \A i \in 1..Len(joins) : DecoderFirstLayer(i).in_channels = GivenChannels(i)
    /\ FinalConnects

\* The part of C21 the code keeps: the encoders and final_conv in both modes,
\* the decoders with interpolation.
C21_InterpolationChannelsConnect ==
    /\ EncodersConnect
    /\ config.interpolation =>
          \A i \in 1..Len(joins) : DecoderFirstLayer(i).in_channels = GivenChannels(i)
    /\ FinalConnects

C21_Interpolation_Witness ==
    /\ config.interpolation /\ pc = "final" /\ Levels = 3 /\ config.feature_maps = 2
    /\ GivenChannels(1) = 12 /\ GivenChannels(2) = 6 /\ Channels(x.val) = 2

\* ------------------------------------------- the factory, freshly built
\* C22 as stated: in a MetricsFactory on which register was never called,
\* create_metric finds a constructor (raises no KeyError) for every member of
\* Metric passed as an enum tag, Metric.Dice and Metric.GeneralizedDice among
\* them.
C22_FreshFactoryResolvesEveryMember ==
    (call.op = "create_metric" /\ call.metric \in Metric /\ nregister = 0)
        => call.out.ok

\* The members a fresh factory does resolve: all but Metric.GeneralizedDice.
C22_FreshFactoryResolvesAllButGeneralizedDice ==
    (call.op = "create_metric" /\ call.metric \in Metric /\ nregister = 0)
        => (call.out.ok <=> call.metric.name # "GeneralizedDice")

C22_Dice_Witness ==
    /\ call.op = "create_metric" /\ call.metric = Member("Dice", "Dice")
    /\ nregister = 0 /\ call.out.ok
    /\ call.out.val.class = "samitorch.metrics.metric.Dice"

\* ------------------------------------- compute before and after update
\* The values compute reports over the all-zero matrix: 0 / (0 + EPSILON) for
\* every class reported (all but the ignored one).
AllZero(val) ==
    /\ Len(val.items) = IF ignore_index = None THEN num_classes ELSE num_classes - 1
    /\ \A i \in 1..Len(val.items) : IsZero(val.items[i]) /\ val.items[i].den = 0

\* C23: compute returns a value only if an update has returned before it:
\* the expression is missing after construction, only an update that returns
\* creates it, and compute without it raises the AttributeError of None;
\* reset zeroes the matrix and keeps the expression, so that compute after an
\* update and a reset returns, with the weights of that update, 0 for every
\* class.
C23_ComputeNeedsAnUpdate ==
    [][kind = "GeneralizedDice" =>
          /\ (last'.op = "compute" /\ metric = None)
                => ~last'.out.ok /\ last'.out.err = NoneHasNoCompute
          /\ (metric = None /\ metric' # None)
                => last'.op = "update" /\ last'.out.ok
          /\ metric # None => metric' # None
          /\ last'.op = "reset"
                => cm' = ZeroMatrix(num_classes) /\ metric' = metric
          /\ (last'.op = "compute" /\ metric # None /\ cm = ZeroMatrix(num_classes)
                /\ WeightVector(metric[1].weights))
                => /\ last'.out.ok
                   /\ AllZero(last'.out.val)
                   /\ last'.out = Evaluate(metric[1], ZeroMatrix(num_classes),
                                           num_classes)]_vars

\* Right after construction the expression is missing.
C23_NoExpressionAtConstruction ==
    (kind = "GeneralizedDice" /\ last.op = "__init__") => metric = None

C23_Witness ==
    /\ kind = "GeneralizedDice" /\ Computed /\ num_classes = 3
    /\ cm = ZeroMatrix(num_classes) /\ fed = EmptyBag
    /\ metric # None /\ metric[1].weights = Some(<<MaxWeight, 1, 1>>)
    /\ AllZero(last.out.val)

====
